---------------------------- MODULE Spec2Model ----------------------------
(***************************************************************************)
(* A model of lib/node.c of hivex: the accessors of a registry key ("nk")   *)
(* record and the walker that resolves a key's subkey indirection blocks    *)
(* ("lf"/"lh" leaves, "ri" indexes) into the list of its children.          *)
(*                                                                         *)
(* The hive is a read-only image: a set of block start offsets (the bitmap *)
(* IS_VALID_BLOCK consults) and, per block, the fields node.c decodes.      *)
(* Pointers stored in the image are relative; node.c adds 0x1000 to each.   *)
(* Every API call is one action; the caller then releases what it was      *)
(* given (Release) before the next call.                                    *)
(***************************************************************************)
EXTENDS Integers, Sequences, FiniteSets, TLC

VARIABLES hive,          \* the mapped hive image (never modified)
          pc,            \* "idle": no result outstanding; "done": a call returned
          call,          \* the call that returned: [op, node, flags, nname, budget]
          ret,           \* integer result (status, handle, length, timestamp; 1/0 for pointer / NULL)
          retbuf,        \* what a returned pointer points to (array or string, terminator included)
          errno,         \* errno as set by the call ("" when the call set none)
          children_ret,  \* *children_ret of _hivex_get_children
          blocks_ret,    \* *blocks_ret of _hivex_get_children
          children,      \* the walker's local list 'children' as the call left it
          blocks,        \* the walker's local list 'blocks' as the call left it
          trace          \* what the walker did: [ncalls, maxdepth, resolved, appended, diverged]

vars == <<hive, pc, call, ret, retbuf, errno, children_ret, blocks_ret,
          children, blocks, trace>>

-----------------------------------------------------------------------------
(* Bounds of the model *)

\* ceiling on subkeys and on intermediate blocks (scaled down)
HIVEX_MAX_SUBKEYS == 4

\* an allocation budget b <= MaxBudget lets b allocations succeed, the next fails
MaxBudget == 3

\* _get_children invocations the model follows past the ceiling before it
\* reports divergence
CallSlack == 3

-----------------------------------------------------------------------------
(* Program constants *)

\* the bias added to every stored inter-block pointer
Bias == 4096

\* sizeof (struct ntreg_nk_record), packed, name[1] included
SizeofNkRecord == 81

\* the flag that bypasses check_child_is_nk_block
GET_CHILDREN_NO_CHECK_NK == 1

\* header of an lf/lh/ri record: seg_len, id, count
ListHeader == 8

\* sizeof of one lf/lh entry {offset, hash}
LfEntry == 8

\* sizeof of one ri entry
RiEntry == 4

Max(a, b) == IF a >= b THEN a ELSE b

\* budget value under which no allocation fails
NoFail == 0 - 1

Budgets == (0 .. MaxBudget) \cup {NoFail}

MaxCalls == HIVEX_MAX_SUBKEYS + CallSlack

-----------------------------------------------------------------------------
(* The Hive Store interface (hivex-internal.h) *)

IS_VALID_BLOCK(h, off) == off \in h.bitmap

BLOCK_ID_EQ(h, off, id) == h.mem[off].id = id

block_len(h, off) == h.mem[off].seg_len


-----------------------------------------------------------------------------
(* Allocation.  A call is given a budget: the number of allocations that    *)
(* succeed before malloc/realloc returns NULL (NoFail: none ever fails).    *)

CanAlloc(budget) == budget # 0

Spend(budget) == IF budget = NoFail THEN NoFail ELSE budget - 1

-----------------------------------------------------------------------------
(* Offset List (offset-list.c).  A list is [offsets, limit, alloc, freed]:  *)
(* the elements in insertion order, the ceiling (Unlimited after init), the *)
(* allocated capacity, and whether its storage was released.  The walker    *)
(* state w carries the two lists by name ("children", "blocks") with the    *)
(* allocation budget, the errno and the status r of the last step.          *)

Unlimited == 0 - 1

EmptyList == [offsets |-> <<>>, limit |-> Unlimited, alloc |-> 0, freed |-> FALSE]

Fail(w, e) == [w EXCEPT !.r = 0 - 1, !.errno = e]

hivex_init_offset_list(w, which) == [w EXCEPT ![which] = EmptyList]

hivex_set_offset_list_limit(w, which, limit) == [w EXCEPT ![which].limit = limit]

hivex_grow_offset_list(w, which, alloc) ==
  IF CanAlloc(w.budget)
  THEN [w EXCEPT ![which].alloc = alloc, !.budget = Spend(@), !.r = 0]
  ELSE Fail(w, "ENOMEM")

\* the store of the element, unless the growth g of the storage failed
store_offset(g, which, offset) ==
  IF g.r # 0 THEN g ELSE [g EXCEPT ![which].offsets = Append(@, offset)]

\* append without the ceiling check, growing the storage when it is full
add_to_offset_list(w, which, offset) ==
  store_offset(IF Len(w[which].offsets) >= w[which].alloc
               THEN hivex_grow_offset_list(
                      w, which,
                      IF w[which].alloc # 0 THEN w[which].alloc * 2 ELSE 4)
               ELSE [w EXCEPT !.r = 0],
               which, offset)

\* a successful append a is counted
count_append(a, which) ==
  IF a.r # 0 THEN a ELSE [a EXCEPT !.appended[which] = @ + 1]

hivex_add_to_offset_list(w, which, offset) ==
  IF w[which].limit # Unlimited /\ Len(w[which].offsets) >= w[which].limit
  THEN Fail(w, "ERANGE")
  ELSE count_append(add_to_offset_list(w, which, offset), which)


hivex_get_offset_list_length(w, which) == Len(w[which].offsets)

\* terminates the list with 0 and hands out its storage; r = -1 stands for NULL
hivex_return_offset_list(w, which) == add_to_offset_list(w, which, 0)

hivex_free_offset_list(w, which) ==
  [w EXCEPT ![which] = [offsets |-> <<>>, limit |-> @.limit, alloc |-> 0,
                        freed |-> TRUE]]

\* A pointer handed to the caller: not written, NULL, or the storage of a list
Unset == [kind |-> "unset", to |-> ""]

NullPtr == [kind |-> "null", to |-> ""]

PtrTo(which) == [kind |-> "ptr", to |-> which]

-----------------------------------------------------------------------------
(* Node accessors *)

IsNkNode(h, node) == IS_VALID_BLOCK(h, node) /\ BLOCK_ID_EQ(h, node, "nk")

\* the byte at index i (from 0) of nk->name; past the bytes the image holds
\* for the block lies other memory of the mapping, read as 255
NameByte(h, node, i) ==
  LET name == h.mem[node].name
  IN IF i + 1 <= Len(name) THEN name[i + 1] ELSE 255

hivex_root(h) ==
  LET r == h.rootoffs
  IN IF ~IS_VALID_BLOCK(h, r)
     THEN [ret |-> 0, errno |-> "HIVEX_NO_KEY"]
     ELSE [ret |-> r, errno |-> ""]

\* mutant: a record that exactly fills its block is refused
hivex_node_struct_length_strict(h, node) ==
  IF ~IS_VALID_BLOCK(h, node) \/ ~BLOCK_ID_EQ(h, node, "nk")
  THEN [ret |-> 0, errno |-> "EINVAL"]
  ELSE LET name_len == h.mem[node].name_len
           r == name_len + SizeofNkRecord - 1
           seg_len == block_len(h, node)
       IN IF r >= seg_len
          THEN [ret |-> 0, errno |-> "EFAULT"]
          ELSE [ret |-> r, errno |-> ""]

hivex_node_struct_length(h, node) ==
  IF ~IS_VALID_BLOCK(h, node) \/ ~BLOCK_ID_EQ(h, node, "nk")
  THEN [ret |-> 0, errno |-> "EINVAL"]
  ELSE LET name_len == h.mem[node].name_len
           r == name_len + SizeofNkRecord - 1
           seg_len == block_len(h, node)
       IN IF r > seg_len
          THEN [ret |-> 0, errno |-> "EFAULT"]
          ELSE [ret |-> r, errno |-> ""]

\* [null, data, errno, budget, read_end]: data is the returned string with its
\* terminating NUL; read_end is one past the last offset of the block memcpy read
hivex_node_name(h, node, budget) ==
  IF ~IS_VALID_BLOCK(h, node) \/ ~BLOCK_ID_EQ(h, node, "nk")
  THEN [null |-> TRUE, data |-> <<>>, errno |-> "EINVAL", budget |-> budget,
        read_end |-> 0]
  ELSE LET len == h.mem[node].name_len
           seg_len == block_len(h, node)
       IN IF SizeofNkRecord + len - 1 > seg_len
          THEN [null |-> TRUE, data |-> <<>>, errno |-> "EFAULT",
                budget |-> budget, read_end |-> 0]
          ELSE IF ~CanAlloc(budget)
          THEN [null |-> TRUE, data |-> <<>>, errno |-> "ENOMEM",
                budget |-> budget, read_end |-> 0]
          ELSE [null |-> FALSE,
                data |-> [i \in 1 .. len + 1 |->
                            IF i <= len THEN NameByte(h, node, i - 1) ELSE 0],
                errno |-> "", budget |-> Spend(budget),
                read_end |-> (SizeofNkRecord - 1) + len]

timestamp_check(h, node, timestamp) ==
  IF timestamp < 0
  THEN [ret |-> 0 - 1, errno |-> "EINVAL"]
  ELSE [ret |-> timestamp, errno |-> ""]

hivex_last_modified(h) == timestamp_check(h, 0, h.last_modified)

hivex_node_timestamp(h, node) ==
  IF ~IS_VALID_BLOCK(h, node) \/ ~BLOCK_ID_EQ(h, node, "nk")
  THEN [ret |-> 0 - 1, errno |-> "EINVAL"]
  ELSE timestamp_check(h, node, h.mem[node].timestamp)

\* mutant: the bias is not applied to the stored parent
hivex_node_parent_nobias(h, node) ==
  IF ~IS_VALID_BLOCK(h, node) \/ ~BLOCK_ID_EQ(h, node, "nk")
  THEN [ret |-> 0, errno |-> "EINVAL"]
  ELSE LET r == h.mem[node].parent
       IN IF ~IS_VALID_BLOCK(h, r + Bias)
          THEN [ret |-> 0, errno |-> "EFAULT"]
          ELSE [ret |-> r, errno |-> ""]

\* mutant: the parent offset is not re-validated
hivex_node_parent_unchecked(h, node) ==
  IF ~IS_VALID_BLOCK(h, node) \/ ~BLOCK_ID_EQ(h, node, "nk")
  THEN [ret |-> 0, errno |-> "EINVAL"]
  ELSE [ret |-> h.mem[node].parent + Bias, errno |-> ""]

hivex_node_parent(h, node) ==
  IF ~IS_VALID_BLOCK(h, node) \/ ~BLOCK_ID_EQ(h, node, "nk")
  THEN [ret |-> 0, errno |-> "EINVAL"]
  ELSE LET r == h.mem[node].parent + Bias
       IN IF ~IS_VALID_BLOCK(h, r)
          THEN [ret |-> 0, errno |-> "EFAULT"]
          ELSE [ret |-> r, errno |-> ""]

-----------------------------------------------------------------------------
(* The subkey tree walker *)

HasFlag(flags, bit) == (flags \div bit) % 2 = 1

\* mutant: the signature of the child is not compared
check_child_is_nk_block_noid(h, child, flags, w) ==
  IF HasFlag(flags, GET_CHILDREN_NO_CHECK_NK) THEN [w EXCEPT !.r = 0]
  ELSE IF ~IS_VALID_BLOCK(h, child) THEN Fail(w, "EFAULT")
  ELSE [w EXCEPT !.r = 0]

check_child_is_nk_block(h, child, flags, w) ==
  IF HasFlag(flags, GET_CHILDREN_NO_CHECK_NK) THEN [w EXCEPT !.r = 0]
  ELSE IF ~IS_VALID_BLOCK(h, child) THEN Fail(w, "EFAULT")
  ELSE IF ~BLOCK_ID_EQ(h, child, "nk") THEN Fail(w, "EFAULT")
  ELSE [w EXCEPT !.r = 0]

\* entry i (from 0) of an lf/lh/ri record; the bound checks keep i inside the
\* block, whose entries the image holds
Entry(block, i) == IF i + 1 <= Len(block.ents) THEN block.ents[i + 1] ELSE 0

\* lf->keys[i].offset (line 323) and ri->offset[i] (line 345)
LfKeyOffset(lf, i) == Entry(lf, i)

\* mutant: the index walked from its last entry to its first
RiOffset_reversed(ri, i) == Entry(ri, ri.nr - 1 - i)

RiOffset(ri, i) == Entry(ri, i)

\* the ceiling of line 230, the ceiling given to 'blocks' at line 245 and
\* the comparison of line 270
\* mutant: the ceiling off by one
TooManySubkeys_offbyone(nr_subkeys_in_nk) ==
  nr_subkeys_in_nk > HIVEX_MAX_SUBKEYS + 1

TooManySubkeys(nr_subkeys_in_nk) == nr_subkeys_in_nk > HIVEX_MAX_SUBKEYS

\* mutant: no ceiling on the list of blocks
BlocksLimit_none == Unlimited

BlocksLimit == HIVEX_MAX_SUBKEYS

\* mutant: only an excess of children counts as a mismatch
SubkeyCountMismatch_excess(nr_subkeys_in_nk, nr_children) ==
  nr_subkeys_in_nk < nr_children

SubkeyCountMismatch(nr_subkeys_in_nk, nr_children) ==
  nr_subkeys_in_nk # nr_children

RECURSIVE get_children(_, _, _, _, _)
RECURSIVE lf_loop(_, _, _, _, _)
RECURSIVE lf_add(_, _, _, _, _)
RECURSIVE lf_next(_, _, _, _, _)
RECURSIVE ri_loop(_, _, _, _, _, _)
RECURSIVE ri_next(_, _, _, _, _, _)
RECURSIVE get_children_block(_, _, _, _, _)

\* line 329: the next entry, unless the append a failed
lf_next(h, lf, i, a, flags) ==
  IF a.r # 0 THEN a ELSE lf_loop(h, lf, i + 1, a, flags)

\* lines 325-328: the append, unless the check c of the child failed
lf_add(h, lf, i, c, flags) ==
  IF c.r # 0 THEN c
  ELSE lf_next(h, lf, i,
               hivex_add_to_offset_list(c, "children", LfKeyOffset(lf, i) + Bias),
               flags)

\* the loop of lines 322-329 from index i
lf_loop(h, lf, i, w, flags) ==
  IF i >= lf.nr THEN [w EXCEPT !.r = 0]
  ELSE lf_add(h, lf, i,
              check_child_is_nk_block(h, LfKeyOffset(lf, i) + Bias, flags, w),
              flags)

\* line 354: the next entry, unless the recursive call g failed
ri_next(h, ri, i, g, flags, depth) ==
  IF g.r # 0 THEN g ELSE ri_loop(h, ri, i + 1, g, flags, depth)

\* the loop of lines 344-354 from index i, in an invocation at depth 'depth'
ri_loop(h, ri, i, w, flags, depth) ==
  IF i >= ri.nr THEN [w EXCEPT !.r = 0]
  ELSE IF ~IS_VALID_BLOCK(h, RiOffset(ri, i) + Bias) THEN Fail(w, "EFAULT")
  ELSE ri_next(h, ri, i,
               get_children(h, RiOffset(ri, i) + Bias, w, flags, depth + 1),
               flags, depth)

\* lines 298-363: w is the state after the append to 'blocks' of line 297
get_children_block(h, blkoff, w, flags, depth) ==
  IF w.r # 0 THEN w
  ELSE IF h.mem[blkoff].id \in {"lf", "lh"}
  THEN IF ListHeader + h.mem[blkoff].nr * LfEntry > block_len(h, blkoff)
       THEN Fail(w, "EFAULT")
       ELSE lf_loop(h, h.mem[blkoff], 0, w, flags)
  ELSE IF h.mem[blkoff].id = "ri"
  THEN IF ListHeader + h.mem[blkoff].nr * RiEntry > block_len(h, blkoff)
       THEN Fail(w, "EFAULT")
       ELSE ri_loop(h, h.mem[blkoff], 0, w, flags, depth)
  ELSE Fail(w, "ENOTSUP")

\* one invocation of _get_children on block blkoff, at recursion depth 'depth'.
\* An invocation beyond MaxCalls is not followed: the walk is reported diverged.
get_children(h, blkoff, w, flags, depth) ==
  IF w.ncalls >= MaxCalls THEN [Fail(w, "") EXCEPT !.diverged = TRUE]
  ELSE get_children_block(
         h, blkoff,
         hivex_add_to_offset_list(
           [w EXCEPT !.ncalls = @ + 1, !.maxdepth = Max(@, depth)],
           "blocks", blkoff),
         flags, depth)

\* the walker state at line 224: both lists initialised
WalkInit(budget) ==
  [children |-> EmptyList, blocks |-> EmptyList, budget |-> budget,
   errno |-> "", r |-> 0, ncalls |-> 0, maxdepth |-> 0, resolved |-> FALSE,
   appended |-> [children |-> 0, blocks |-> 0], diverged |-> FALSE,
   children_ret |-> Unset, blocks_ret |-> Unset]

\* label 'error' (lines 285-288)
get_children_error(w) ==
  [hivex_free_offset_list(hivex_free_offset_list(w, "children"), "blocks")
     EXCEPT !.r = 0 - 1]

\* the assignment of what _hivex_return_offset_list returned (state c) to the
\* output 'out': NULL or the storage of list 'which'
returned_to(c, out, which) ==
  [c EXCEPT ![out] = IF c.r # 0 THEN NullPtr ELSE PtrTo(which)]

\* lines 281-283
get_children_return(w) ==
  IF w.children_ret = NullPtr \/ w.blocks_ret = NullPtr
  THEN get_children_error(w)
  ELSE [w EXCEPT !.r = 0]

\* label 'out' (lines 278-283)
get_children_out(w) ==
  get_children_return(
    returned_to(
      hivex_return_offset_list(
        returned_to(hivex_return_offset_list(w, "children"),
                    "children_ret", "children"),
        "blocks"),
      "blocks_ret", "blocks"))

\* lines 266-283: w is the state in which the walk of line 263 returned
get_children_check(h, node, w) ==
  IF w.r # 0 THEN get_children_error(w)
  ELSE IF SubkeyCountMismatch(h.mem[node].nr_subkeys,
                              hivex_get_offset_list_length(w, "children"))
  THEN get_children_error(Fail(w, "ENOTSUP"))
  ELSE get_children_out(w)

\* lines 248-264: w is the state after the preallocation of line 248
get_children_walk(h, node, flags, w) ==
  IF w.r # 0 THEN get_children_error(w)
  ELSE IF ~IS_VALID_BLOCK(h, h.mem[node].subkey_lf + Bias)
  THEN get_children_error(Fail([w EXCEPT !.resolved = TRUE], "EFAULT"))
  ELSE get_children_check(
         h, node,
         get_children(h, h.mem[node].subkey_lf + Bias,
                      [w EXCEPT !.resolved = TRUE], flags, 1))

hivex_get_children(h, node, flags, budget) ==
  IF ~IS_VALID_BLOCK(h, node) \/ ~BLOCK_ID_EQ(h, node, "nk")
  THEN Fail(WalkInit(budget), "EINVAL")
  ELSE IF h.mem[node].nr_subkeys = 0
  THEN get_children_out(
         hivex_init_offset_list(
           hivex_init_offset_list(WalkInit(budget), "children"), "blocks"))
  ELSE IF TooManySubkeys(h.mem[node].nr_subkeys)
  THEN get_children_error(
         Fail(hivex_init_offset_list(
                hivex_init_offset_list(WalkInit(budget), "children"), "blocks"),
              "ERANGE"))
  ELSE get_children_walk(
         h, node, flags,
         hivex_grow_offset_list(
           hivex_set_offset_list_limit(
             hivex_set_offset_list_limit(
               hivex_init_offset_list(
                 hivex_init_offset_list(WalkInit(budget), "children"), "blocks"),
               "children", h.mem[node].nr_subkeys),
             "blocks", BlocksLimit),
           "children", h.mem[node].nr_subkeys))


-----------------------------------------------------------------------------
(* node_children and node_get_child *)

\* [null, data, errno, budget, w]: data is the returned array, its 0
\* terminator included; w is the walker's final state, 'blocks' released.
\* Lines 396-400, g being what _hivex_get_children returned.
node_children_of(g) ==
  IF g.r = 0 - 1
  THEN [null |-> TRUE, data |-> <<>>, errno |-> g.errno, budget |-> g.budget,
        w |-> g]
  ELSE [null |-> FALSE, data |-> g.children.offsets, errno |-> g.errno,
        budget |-> g.budget, w |-> hivex_free_offset_list(g, "blocks")]

hivex_node_children(h, node, budget) ==
  node_children_of(hivex_get_children(h, node, 0, budget))

\* tolower in the C locale
c_tolower(c) == IF c >= 65 /\ c <= 90 THEN c + 32 ELSE c

\* the character at index i (from 1) of a NUL-terminated string
CharAt(str, i) == IF i <= Len(str) THEN str[i] ELSE 0

RECURSIVE strcasecmp_from(_, _, _)
strcasecmp_from(a, b, i) ==
  IF c_tolower(CharAt(a, i)) # c_tolower(CharAt(b, i))
  THEN c_tolower(CharAt(a, i)) - c_tolower(CharAt(b, i))
  ELSE IF c_tolower(CharAt(a, i)) = 0 THEN 0
  ELSE strcasecmp_from(a, b, i + 1)

\* mutant: a comparison that minds case
STRCASEEQ_exact(a, b) == a = b

STRCASEEQ(a, b) == strcasecmp_from(a, b, 1) = 0

RECURSIVE get_child_scan(_, _, _, _, _)
RECURSIVE get_child_compare(_, _, _, _, _)

\* lines 419-424, name being what hivex_node_name returned for children[i]
get_child_compare(h, data, i, nname, name) ==
  IF name.null
  THEN [ret |-> 0, errno |-> name.errno, budget |-> name.budget]
  ELSE IF STRCASEEQ(name.data, nname)
  THEN [ret |-> data[i + 1], errno |-> "", budget |-> name.budget]
  ELSE get_child_scan(h, data, i + 1, nname, name.budget)

\* the loop of lines 417-425 from index i over the array 'data'
get_child_scan(h, data, i, nname, budget) ==
  IF data[i + 1] = 0 THEN [ret |-> 0, errno |-> "", budget |-> budget]
  ELSE get_child_compare(h, data, i, nname,
                         hivex_node_name(h, data[i + 1], budget))

\* the result s of the scan, with the enumeration c it ran over
get_child_found(s, c) == [ret |-> s.ret, errno |-> s.errno, c |-> c]

\* lines 414-430, c being what hivex_node_children returned
get_child_in(h, c, nname) ==
  IF c.null THEN [ret |-> 0, errno |-> c.errno, c |-> c]
  ELSE get_child_found(get_child_scan(h, c.data, 0, nname, c.budget), c)

hivex_node_get_child(h, node, nname, budget) ==
  get_child_in(h, hivex_node_children(h, node, budget), nname)


-----------------------------------------------------------------------------
(* Hive images.  Blocks sit at fixed offsets; what varies is what their     *)
(* fields hold, so that well-formed and corrupted images are both covered.  *)

At(k) == Bias + 32 * k

RootKey == At(1)
FlatKey == At(2)
K1 == At(3)
K2 == At(4)
K3 == At(5)
RI == At(6)
RI2 == At(7)
LA == At(8)
LB == At(9)
LF == At(10)
VK == At(11)

\* the offset a stored pointer of 0 resolves to: inside the mapping, but no
\* block starts there
BadOff == Bias

Blocks == {RootKey, FlatKey, K1, K2, K3, RI, RI2, LA, LB, LF, VK}

\* the stored form of a pointer to 'off'
Rel(off) == off - Bias

RelSeq(offs) == [i \in 1 .. Len(offs) |-> Rel(offs[i])]

NkBlock(parent, subkey_lf, nr_subkeys, name_len, name, seg_len, timestamp) ==
  [id |-> "nk", seg_len |-> seg_len, timestamp |-> timestamp,
   parent |-> Rel(parent), subkey_lf |-> Rel(subkey_lf),
   nr_subkeys |-> nr_subkeys, name_len |-> name_len, name |-> name,
   nr |-> 0, ents |-> <<>>]

\* an lf/lh/ri record declaring nr entries and holding the entries 'offs';
\* the block is exactly as long as the entries it holds
ListBlock(id, nr, offs) ==
  [id |-> id,
   seg_len |-> ListHeader + Len(offs) * (IF id = "ri" THEN RiEntry ELSE LfEntry),
   timestamp |-> 0, parent |-> 0, subkey_lf |-> 0, nr_subkeys |-> 0,
   name_len |-> 0, name |-> <<>>, nr |-> nr, ents |-> RelSeq(offs)]

OtherBlock(id) ==
  [id |-> id, seg_len |-> 32, timestamp |-> 0, parent |-> 0, subkey_lf |-> 0,
   nr_subkeys |-> 0, name_len |-> 0, name |-> <<>>, nr |-> 0, ents |-> <<>>]

Full(offs) == [nr |-> Len(offs), ents |-> offs]

\* what the "ri" block at RI may hold
RiChoices ==
  { Full(<<LA, LB>>), Full(<<LB, LA>>), Full(<<LA, LA>>), Full(<<LA, LB, LA>>),
    Full(<<RI>>), Full(<<LA, RI>>), Full(<<RI2>>),
    Full(<<LA, VK>>), Full(<<LA, BadOff>>), Full(<<>>),
    [nr |-> 3, ents |-> <<LA, LB>>] }

\* what the "lf" block at LA may hold
LaChoices ==
  { Full(<<K1, K2>>), Full(<<K2, K1>>), Full(<<K1>>),
    Full(<<K1, VK>>), Full(<<K1, BadOff>>),
    [nr |-> 3, ents |-> <<K1, K2>>] }

\* "ab", "AB", "b"
NameAB == <<97, 98>>
NameUpperAB == <<65, 66>>
NameB == <<98>>

\* The image with the given subkey structure under RootKey: RootKey declares d
\* subkeys and points to sl; RI and LA hold ri and la; LB is an "lh" leaf
\* listing K3; RI2 is an index back to RI; FlatKey lists in the one leaf LF
\* the entries of LA followed by K3.
Image(root, d, sl, ri, la, k1, k2) ==
  LET flat == la.ents \o <<K3>>
  IN [rootoffs |-> root, last_modified |-> 0, bitmap |-> Blocks,
      mem |-> [a \in Blocks \cup {BadOff} |->
        CASE a = RootKey -> NkBlock(BadOff, sl, d, 1, <<82>>, 88, 1)
          [] a = FlatKey -> NkBlock(RootKey, LF, Len(flat), 1, <<70>>, 88, 0)
          [] a = K1 -> k1
          [] a = K2 -> k2
          [] a = K3 -> NkBlock(RootKey, BadOff, 0, 1, NameB, 88, 0)
          [] a = RI -> ListBlock("ri", ri.nr, ri.ents)
          [] a = RI2 -> ListBlock("ri", 2, <<LB, RI>>)
          [] a = LA -> ListBlock("lf", la.nr, la.ents)
          [] a = LB -> ListBlock("lh", 1, <<K3>>)
          [] a = LF -> ListBlock("lf", Len(flat), flat)
          [] a = VK -> OtherBlock("vk")
          [] OTHER -> OtherBlock("hb")]]

\* images whose subkey structure varies
WalkImages ==
  LET k1 == NkBlock(RootKey, BadOff, 0, 2, NameAB, 88, 0 - 1)
      k2 == NkBlock(RootKey, BadOff, 0, 2, NameUpperAB, 88, 0)
      shapes == { [sl |-> RI, ri |-> ri, la |-> la] :
                    ri \in RiChoices, la \in LaChoices }
                \cup { [sl |-> LA, ri |-> Full(<<LA, LB>>), la |-> la] :
                         la \in LaChoices }
                \cup { [sl |-> x, ri |-> Full(<<LA, LB>>), la |-> Full(<<K1, K2>>)] :
                         x \in {VK, BadOff, K1} }
  IN { Image(RootKey, d, s.sl, s.ri, s.la, k1, k2) :
         d \in 0 .. HIVEX_MAX_SUBKEYS + 1, s \in shapes }

\* the bytes held after the header of K1: "abA" or "A\0b"
K1Tails == { <<97, 98, 65>>, <<65, 0, 98>> }

\* images whose key records vary: the name, name length, block length and
\* parent of K1, the name of K2, and the root offset; RootKey lists K1, K2,
\* K3 through one leaf
NameImages ==
  { Image(root, 3, LA, Full(<<LA, LB>>), Full(<<K1, K2, K3>>),
          NkBlock(parent, BadOff, 0, name_len, tail, seg_len, 0 - 1),
          NkBlock(RootKey, BadOff, 0, Len(name2), name2, 88, 0)) :
      root \in {RootKey, BadOff},
      parent \in {RootKey, FlatKey, VK, BadOff},
      name_len \in 0 .. 3,
      tail \in K1Tails,
      seg_len \in (SizeofNkRecord - 1) .. (SizeofNkRecord + 2),
      name2 \in {NameAB, NameUpperAB, <<97>>} }

-----------------------------------------------------------------------------
(* The state machine *)

\* the handles callers pass: keys, a block that is no key, an invalid offset
CallNodes == {RootKey, FlatKey, K1, VK, BadOff}

\* the names callers look up (NUL-terminated): "ab", "AB", "a", ""
Queries == { <<97, 98, 0>>, <<65, 66, 0>>, <<97, 0>>, <<0>> }

NoCall == [op |-> "none", node |-> 0, flags |-> 0, nname |-> <<>>, budget |-> 0]

NoTrace == [ncalls |-> 0, maxdepth |-> 0, resolved |-> FALSE, appended |-> [children |-> 0, blocks |-> 0],
            diverged |-> FALSE]

TraceOf(w) == [ncalls |-> w.ncalls, maxdepth |-> w.maxdepth,
               resolved |-> w.resolved, appended |-> w.appended,
               diverged |-> w.diverged]

Idle ==
  /\ pc = "idle"
  /\ call = NoCall
  /\ ret = 0
  /\ retbuf = <<>>
  /\ errno = ""
  /\ children_ret = Unset
  /\ blocks_ret = Unset
  /\ children = EmptyList
  /\ blocks = EmptyList
  /\ trace = NoTrace

Init == hive \in WalkImages /\ Idle

InitNames == hive \in NameImages /\ Idle

\* a call that uses no walker returns r = [ret, errno] and, for a pointer
\* result, the data it points to
Returned(c, r, buf) ==
  /\ pc' = "done"
  /\ call' = c
  /\ ret' = r.ret
  /\ retbuf' = buf
  /\ errno' = r.errno
  /\ children_ret' = Unset
  /\ blocks_ret' = Unset
  /\ children' = EmptyList
  /\ blocks' = EmptyList
  /\ trace' = NoTrace
  /\ UNCHANGED hive

\* a call that used the walker returns r with errno e and data buf, the
\* walker having ended in state w
WalkReturned(c, r, e, buf, w) ==
  /\ pc' = "done"
  /\ call' = c
  /\ ret' = r
  /\ retbuf' = buf
  /\ errno' = e
  /\ children_ret' = w.children_ret
  /\ blocks_ret' = w.blocks_ret
  /\ children' = w.children
  /\ blocks' = w.blocks
  /\ trace' = TraceOf(w)
  /\ UNCHANGED hive

NameReturned(c, n) ==
  Returned(c, [ret |-> IF n.null THEN 0 ELSE 1, errno |-> n.errno], n.data)

GetChildrenReturned(c, g) == WalkReturned(c, g.r, g.errno, <<>>, g)

NodeChildrenReturned(c, n) ==
  WalkReturned(c, IF n.null THEN 0 ELSE 1, n.errno, n.data, n.w)

\* node_get_child releases the array of children before it returns (line 428)
NodeGetChildReturned(c, g) ==
  WalkReturned(c, g.ret, g.errno, <<>>,
               IF g.c.null THEN g.c.w
               ELSE hivex_free_offset_list(g.c.w, "children"))

Root ==
  /\ pc = "idle"
  /\ Returned([NoCall EXCEPT !.op = "root"], hivex_root(hive), <<>>)

LastModified ==
  /\ pc = "idle"
  /\ Returned([NoCall EXCEPT !.op = "last_modified"], hivex_last_modified(hive), <<>>)

NodeStructLength(node) ==
  /\ pc = "idle"
  /\ Returned([NoCall EXCEPT !.op = "node_struct_length", !.node = node],
              hivex_node_struct_length(hive, node), <<>>)

NodeName(node, budget) ==
  /\ pc = "idle"
  /\ NameReturned([NoCall EXCEPT !.op = "node_name", !.node = node,
                                 !.budget = budget],
                  hivex_node_name(hive, node, budget))

NodeTimestamp(node) ==
  /\ pc = "idle"
  /\ Returned([NoCall EXCEPT !.op = "node_timestamp", !.node = node],
              hivex_node_timestamp(hive, node), <<>>)

NodeParent(node) ==
  /\ pc = "idle"
  /\ Returned([NoCall EXCEPT !.op = "node_parent", !.node = node],
              hivex_node_parent(hive, node), <<>>)

GetChildren(node, flags, budget) ==
  /\ pc = "idle"
  /\ GetChildrenReturned([NoCall EXCEPT !.op = "get_children", !.node = node,
                                        !.flags = flags, !.budget = budget],
                         hivex_get_children(hive, node, flags, budget))

NodeChildren(node, budget) ==
  /\ pc = "idle"
  /\ NodeChildrenReturned([NoCall EXCEPT !.op = "node_children", !.node = node,
                                         !.budget = budget],
                          hivex_node_children(hive, node, budget))

NodeGetChild(node, nname, budget) ==
  /\ pc = "idle"
  /\ NodeGetChildReturned([NoCall EXCEPT !.op = "node_get_child", !.node = node,
                                         !.nname = nname, !.budget = budget],
                          hivex_node_get_child(hive, node, nname, budget))

\* the caller is done with the result and frees what it was given
Release ==
  /\ pc = "done"
  /\ pc' = "idle"
  /\ call' = NoCall
  /\ ret' = 0
  /\ retbuf' = <<>>
  /\ errno' = ""
  /\ children_ret' = Unset
  /\ blocks_ret' = Unset
  /\ children' = EmptyList
  /\ blocks' = EmptyList
  /\ trace' = NoTrace
  /\ UNCHANGED hive

Next ==
  \/ Root
  \/ LastModified
  \/ \E node \in CallNodes : NodeStructLength(node)
  \/ \E node \in CallNodes, budget \in Budgets : NodeName(node, budget)
  \/ \E node \in CallNodes : NodeTimestamp(node)
  \/ \E node \in CallNodes : NodeParent(node)
  \/ \E node \in CallNodes, flags \in {0, GET_CHILDREN_NO_CHECK_NK},
        budget \in Budgets : GetChildren(node, flags, budget)
  \/ \E node \in CallNodes, budget \in Budgets : NodeChildren(node, budget)
  \/ \E node \in CallNodes, nname \in Queries, budget \in Budgets :
        NodeGetChild(node, nname, budget)
  \/ Release

Spec == Init /\ [][Next]_vars

SpecNames == InitNames /\ [][Next]_vars

-----------------------------------------------------------------------------
(* Vocabulary of the properties *)

\* the error kinds of the design, by the errno node.c records for them
InvalidArgument == "EINVAL"
StructuralFault == "EFAULT"
UnsupportedStructure == "ENOTSUP"
ResourceLimitExceeded == "ERANGE"

Done(op) == pc = "done" /\ call.op = op

\* a call returned that went through the walker
Walked == pc = "done" /\ call.op \in {"get_children", "node_children", "node_get_child"}

\* deepest index nesting the structural definitions below follow
StructDepth == 3

\* The indirection structure under block blk, read off the image alone.
\* BlocksSound: every block reached is a valid lf/lh/ri record whose declared
\* count fits its length, within StructDepth levels (so: no cycle).
RECURSIVE BlocksSound(_, _, _)
BlocksSound(h, blk, fuel) ==
  /\ fuel > 0
  /\ IS_VALID_BLOCK(h, blk)
  /\ LET b == h.mem[blk]
     IN \/ /\ b.id \in {"lf", "lh"}
           /\ ListHeader + b.nr * LfEntry <= b.seg_len
        \/ /\ b.id = "ri"
           /\ ListHeader + b.nr * RiEntry <= b.seg_len
           /\ \A i \in 1 .. b.nr : BlocksSound(h, b.ents[i] + Bias, fuel - 1)

\* the leaf entries under blk, depth first, left to right (absolute offsets)
RECURSIVE LeafOrder(_, _, _)
RECURSIVE LeafOrderFrom(_, _, _, _)
LeafOrderFrom(h, b, i, fuel) ==
  IF i > b.nr THEN <<>>
  ELSE LeafOrder(h, b.ents[i] + Bias, fuel - 1) \o LeafOrderFrom(h, b, i + 1, fuel)

LeafOrder(h, blk, fuel) ==
  LET b == h.mem[blk]
  IN IF b.id = "ri" THEN LeafOrderFrom(h, b, 1, fuel)
     ELSE [i \in 1 .. b.nr |-> b.ents[i] + Bias]

\* the number of intermediate blocks under blk, blk included, with repeats
RECURSIVE BlockCount(_, _, _)
RECURSIVE BlockCountFrom(_, _, _, _)
BlockCountFrom(h, b, i, fuel) ==
  IF i > b.nr THEN 0
  ELSE BlockCount(h, b.ents[i] + Bias, fuel - 1) + BlockCountFrom(h, b, i + 1, fuel)

BlockCount(h, blk, fuel) ==
  LET b == h.mem[blk]
  IN IF b.id = "ri" THEN 1 + BlockCountFrom(h, b, 1, fuel) ELSE 1

SubkeyList(h, node) == h.mem[node].subkey_lf + Bias

Declared(h, node) == h.mem[node].nr_subkeys

\* key 'node' has a sound block structure of at most HIVEX_MAX_SUBKEYS blocks
SoundBlocks(h, node) ==
  /\ IsNkNode(h, node)
  /\ BlocksSound(h, SubkeyList(h, node), StructDepth)
  /\ BlockCount(h, SubkeyList(h, node), StructDepth) <= HIVEX_MAX_SUBKEYS

Leaves(h, node) == LeafOrder(h, SubkeyList(h, node), StructDepth)

\* ... and each of its leaf entries is a valid "nk" block
SoundKey(h, node) ==
  /\ SoundBlocks(h, node)
  /\ \A i \in 1 .. Len(Leaves(h, node)) : IsNkNode(h, Leaves(h, node)[i])

\* the array a successful call handed out, without its 0 terminator
ChildrenOut == SubSeq(children.offsets, 1, Len(children.offsets) - 1)

-----------------------------------------------------------------------------
(* C1: the count of children against the declared nr_subkeys *)

\* the leaf entries the walker will accept under the call's flags
LeavesAccepted(h, node, flags) ==
  \/ SoundKey(h, node)
  \/ SoundBlocks(h, node) /\ HasFlag(flags, GET_CHILDREN_NO_CHECK_NK)

-----------------------------------------------------------------------------
(* C2: all or nothing *)

\* C2 as claimed: when get_children fails it returns -1, both lists are
\* released, and neither *children_ret nor *blocks_ret holds a list.
C2_FailureLeavesNoList ==
  Done("get_children") /\ ret # 0 =>
    /\ ret = 0 - 1
    /\ children.offsets = <<>> /\ children.alloc = 0
    /\ blocks.offsets = <<>> /\ blocks.alloc = 0
    /\ children_ret.kind # "ptr"
    /\ blocks_ret.kind # "ptr"

-----------------------------------------------------------------------------
(* C3: an index over leaves against one flat leaf *)

\* node points to an "ri" block whose entries are all leaves, and declares
\* as many subkeys as those leaves list
TwoLevel(h, node) ==
  /\ SoundKey(h, node)
  /\ LET ri == h.mem[SubkeyList(h, node)]
     IN /\ ri.id = "ri"
        /\ \A i \in 1 .. ri.nr : h.mem[ri.ents[i] + Bias].id \in {"lf", "lh"}
  /\ Declared(h, node) = Len(Leaves(h, node))
  /\ Declared(h, node) <= HIVEX_MAX_SUBKEYS

\* node points to one "lf" block and declares as many subkeys as it lists
FlatLeaf(h, node) ==
  /\ SoundKey(h, node)
  /\ h.mem[SubkeyList(h, node)].id = "lf"
  /\ Declared(h, node) = Len(Leaves(h, node))
  /\ Declared(h, node) <= HIVEX_MAX_SUBKEYS

\* C3: for a two-level key, get_children returns the leaf entries in index
\* order then leaf order, and that list is the one returned for any key that
\* lists the same offsets in one flat "lf" block; the visited blocks differ.
C3_IndexEqualsFlatLeaf ==
  ( /\ Done("get_children")
    /\ call.budget = NoFail
    /\ TwoLevel(hive, call.node) )
  => /\ ret = 0
     /\ ChildrenOut = Leaves(hive, call.node)
     /\ \A flat \in CallNodes :
          (FlatLeaf(hive, flat) /\ Leaves(hive, flat) = Leaves(hive, call.node))
          => LET f == hivex_get_children(hive, flat, call.flags, NoFail)
             IN /\ f.r = 0
                /\ f.children.offsets = children.offsets
                /\ f.blocks.offsets # blocks.offsets

\* a two-level key of three children with a flat twin was walked
C3_Witness ==
  /\ Done("get_children")
  /\ call.budget = NoFail
  /\ TwoLevel(hive, call.node)
  /\ \E flat \in CallNodes :
       FlatLeaf(hive, flat) /\ Leaves(hive, flat) = Leaves(hive, call.node)
  /\ ret = 0
  /\ Len(ChildrenOut) = 3
  /\ Len(blocks.offsets) = 4

-----------------------------------------------------------------------------
(* C4: the ceiling on nr_subkeys comes before any traversal *)

\* C4: a valid key declaring more than HIVEX_MAX_SUBKEYS subkeys fails with
\* ResourceLimitExceeded with subkey_lf not read, no block visited and
\* nothing appended to either list.
C4_CeilingBeforeTraversal ==
  Walked /\ IsNkNode(hive, call.node)
         /\ Declared(hive, call.node) > HIVEX_MAX_SUBKEYS =>
    /\ errno = ResourceLimitExceeded
    /\ call.op = "get_children" => ret = 0 - 1
    /\ call.op # "get_children" => ret = 0
    /\ ~trace.resolved
    /\ trace.ncalls = 0
    /\ trace.appended = [children |-> 0, blocks |-> 0]
    /\ children_ret = Unset /\ blocks_ret = Unset

\* a key over a sound structure declared one subkey too many
C4_Witness ==
  /\ Done("get_children")
  /\ SoundKey(hive, call.node)
  /\ Declared(hive, call.node) = HIVEX_MAX_SUBKEYS + 1
  /\ ret = 0 - 1
  /\ errno = ResourceLimitExceeded

-----------------------------------------------------------------------------
(* C5: looking a child up by name *)

FoldCase(c) == IF c \in 65 .. 90 THEN c + 32 ELSE c

EqNoCase(a, b) ==
  /\ Len(a) = Len(b)
  /\ \A i \in 1 .. Len(a) : FoldCase(a[i]) = FoldCase(b[i])

\* the text of a byte string as C reads it: up to its first NUL
CText(str) ==
  LET nuls == {i \in 1 .. Len(str) : str[i] = 0}
  IN IF nuls = {} THEN str
     ELSE SubSeq(str, 1, (CHOOSE i \in nuls : \A j \in nuls : i <= j) - 1)

\* the name_len bytes of the name of key k, and whether they fit k's block
RawName(h, k) == [i \in 1 .. h.mem[k].name_len |-> NameByte(h, k, i - 1)]

NameFits(h, k) == SizeofNkRecord + h.mem[k].name_len - 1 <= h.mem[k].seg_len

NameMatches(h, k, nname) ==
  NameFits(h, k) /\ EqNoCase(CText(RawName(h, k)), CText(nname))

MinOf(S) == CHOOSE i \in S : \A j \in S : i <= j

\* the children node_children enumerates for the call's node (<<>> if it fails)
Enumerated ==
  LET c == hivex_node_children(hive, call.node, call.budget)
  IN IF c.null THEN <<>> ELSE SubSeq(c.data, 1, Len(c.data) - 1)

EnumerationFails == hivex_node_children(hive, call.node, call.budget).null

\* C5 as claimed, with no allocation failing: node_get_child returns the
\* first enumerated child whose name equals nname ignoring case, and 0 only
\* if no child's name matches or the enumeration fails.
C5_FirstMatchOrNone ==
  Done("node_get_child") /\ call.budget = NoFail =>
    LET kids == Enumerated
        M == {i \in 1 .. Len(kids) : NameMatches(hive, kids[i], call.nname)}
    IN IF EnumerationFails \/ M = {} THEN ret = 0 ELSE ret = kids[MinOf(M)]

\* C5 amended: node_get_child returns 0 if the enumeration fails; a non-zero
\* result is the first enumerated child whose name (as a C string) equals
\* nname ignoring ASCII case, and every child before it has a name that fits
\* its block; with no allocation failing the scan stops at the first child
\* whose name either matches (that child is returned) or does not fit its
\* block (0 is returned with StructuralFault, even if a later child
\* matches); 0 is returned if there is no such child.  Names that differ only
\* in case give the same result.
C5_FirstMatchUnlessNameFails ==
  Done("node_get_child") =>
    LET kids == Enumerated
        match(i) == NameMatches(hive, kids[i], call.nname)
        stop == {i \in 1 .. Len(kids) : match(i) \/ ~NameFits(hive, kids[i])}
    IN /\ EnumerationFails => ret = 0
       /\ ret # 0 => \E i \in 1 .. Len(kids) :
                        /\ ret = kids[i]
                        /\ match(i)
                        /\ \A j \in 1 .. i - 1 :
                             NameFits(hive, kids[j]) /\ ~match(j)
       /\ (call.budget = NoFail /\ ~EnumerationFails) =>
            /\ stop = {} => ret = 0 /\ errno = ""
            /\ stop # {} =>
                 IF match(MinOf(stop))
                 THEN ret = kids[MinOf(stop)]
                 ELSE ret = 0 /\ errno = StructuralFault
       /\ \A q \in Queries :
            EqNoCase(q, call.nname) =>
              hivex_node_get_child(hive, call.node, q, call.budget).ret = ret

\* the name of the first child does not fit its block and the second matches
C5_Witness ==
  /\ Done("node_get_child")
  /\ call.budget = NoFail
  /\ Len(Enumerated) >= 2
  /\ ~NameFits(hive, Enumerated[1])
  /\ NameMatches(hive, Enumerated[2], call.nname)
  /\ ret = 0
  /\ errno = StructuralFault

-----------------------------------------------------------------------------
(* C6: the parent of an enumerated child *)

\* C6 as claimed: node_parent of every child node_children returns for n
\* succeeds and returns n.
C6_ParentOfChildIsNode ==
  Done("node_children") /\ ret = 1 =>
    \A i \in 1 .. Len(retbuf) - 1 :
      hivex_node_parent(hive, retbuf[i]).ret = call.node

\* C6 amended: node_parent of a child node_children returns for n never
\* fails with InvalidArgument, and it returns n exactly when the parent field
\* stored in the child, plus 0x1000, is n; the walker does not compare that
\* field with n.
C6_ParentOfChildIsStoredParent ==
  Done("node_children") /\ ret = 1 =>
    \A i \in 1 .. Len(retbuf) - 1 :
      LET p == hivex_node_parent(hive, retbuf[i])
      IN /\ p.errno # InvalidArgument
         /\ p.ret = call.node <=> hive.mem[retbuf[i]].parent + Bias = call.node

\* children were enumerated of which one names the key as its parent and
\* another names a different key
C6_Witness ==
  /\ Done("node_children")
  /\ ret = 1
  /\ \E i, j \in 1 .. Len(retbuf) - 1 :
       /\ hivex_node_parent(hive, retbuf[i]).ret = call.node
       /\ hivex_node_parent(hive, retbuf[j]).ret \notin {0, call.node}

-----------------------------------------------------------------------------
(* C7: node_name and node_struct_length bound the name by the block *)

\* C7: on a valid key both fail with StructuralFault exactly when
\* header_size + name_len - 1 exceeds the block length; otherwise
\* node_struct_length returns header_size + name_len - 1 and node_name the
\* name_len bytes of the name, read from inside the block.
C7_NameBoundedByBlock ==
  (pc = "done" /\ call.op \in {"node_name", "node_struct_length"}
               /\ IsNkNode(hive, call.node)) =>
    LET k == hive.mem[call.node]
        toolong == SizeofNkRecord + k.name_len - 1 > k.seg_len
        sl == hivex_node_struct_length(hive, call.node)
        nm == hivex_node_name(hive, call.node, call.budget)
    IN /\ (sl.errno = StructuralFault) <=> toolong
       /\ (nm.errno = StructuralFault) <=> toolong
       /\ (sl.ret = 0) <=> toolong
       /\ call.op = "node_struct_length" =>
            /\ toolong => ret = 0 /\ errno = StructuralFault
            /\ ~toolong => ret = SizeofNkRecord + k.name_len - 1 /\ errno = ""
       /\ call.op = "node_name" =>
            /\ toolong => ret = 0 /\ errno = StructuralFault
            /\ (~toolong /\ CanAlloc(call.budget)) =>
                 /\ ret = 1
                 /\ Len(retbuf) = k.name_len + 1
                 /\ retbuf[k.name_len + 1] = 0
                 /\ SubSeq(retbuf, 1, k.name_len) = SubSeq(k.name, 1, k.name_len)
                 /\ nm.read_end <= k.seg_len

\* a name that exactly fills its block was returned
C7_Witness ==
  /\ Done("node_name")
  /\ IsNkNode(hive, call.node)
  /\ hive.mem[call.node].name_len = 3
  /\ SizeofNkRecord + hive.mem[call.node].name_len - 1 = hive.mem[call.node].seg_len
  /\ ret = 1
  /\ Len(retbuf) = 4

-----------------------------------------------------------------------------
(* C8: the walk is bounded *)

\* C8: a call of get_children makes at most HIVEX_MAX_SUBKEYS + 1 invocations
\* of the block walk, nested at most that deep, on every image, cyclic ones
\* included; a call that makes HIVEX_MAX_SUBKEYS + 1 fails with
\* ResourceLimitExceeded.
C8_WalkBounded ==
  Walked =>
    /\ ~trace.diverged
    /\ trace.ncalls <= HIVEX_MAX_SUBKEYS + 1
    /\ trace.maxdepth <= HIVEX_MAX_SUBKEYS + 1
    /\ trace.appended.blocks <= HIVEX_MAX_SUBKEYS
    /\ trace.ncalls = HIVEX_MAX_SUBKEYS + 1 =>
         /\ errno = ResourceLimitExceeded
         /\ call.op = "get_children" => ret = 0 - 1
         /\ call.op # "get_children" => ret = 0

\* an index that lists itself was walked down to the ceiling
C8_Witness ==
  /\ Done("get_children")
  /\ LET ri == hive.mem[SubkeyList(hive, call.node)]
     IN ri.id = "ri" /\ ri.nr = 1 /\ ri.ents[1] + Bias = SubkeyList(hive, call.node)
  /\ trace.ncalls = HIVEX_MAX_SUBKEYS + 1
  /\ trace.maxdepth = HIVEX_MAX_SUBKEYS + 1
  /\ ret = 0 - 1
  /\ errno = ResourceLimitExceeded

-----------------------------------------------------------------------------
(* C9: the children returned are keys *)

\* the position in leaf order of the first entry that is no valid "nk" block
FirstBadLeaf(h, node) ==
  LET l == Leaves(h, node)
      bad == {i \in 1 .. Len(l) : ~IsNkNode(h, l[i])}
  IN IF bad = {} THEN 0 ELSE MinOf(bad)

\* C9: with flags = 0 every offset returned is a valid "nk" block, and the
\* first leaf entry that is not one (reached within the declared count, over
\* sound blocks) fails the call with StructuralFault, the entries before it
\* and no other having been appended.
C9_ChildrenAreKeys ==
  (Walked /\ ~HasFlag(call.flags, GET_CHILDREN_NO_CHECK_NK)) =>
    /\ ((call.op = "get_children" /\ ret = 0) \/ (call.op = "node_children" /\ ret = 1))
       => \A i \in 1 .. Len(ChildrenOut) : IsNkNode(hive, ChildrenOut[i])
    /\ ( /\ call.budget = NoFail
         /\ SoundBlocks(hive, call.node)
         /\ Declared(hive, call.node) <= HIVEX_MAX_SUBKEYS
         /\ FirstBadLeaf(hive, call.node) \in 1 .. Declared(hive, call.node) )
       => /\ errno = StructuralFault
          /\ call.op = "get_children" => ret = 0 - 1
          /\ call.op # "get_children" => ret = 0
          /\ trace.appended.children = FirstBadLeaf(hive, call.node) - 1

\* a leaf whose second entry is no key was walked with flags = 0
C9_Witness ==
  /\ Done("get_children")
  /\ call.flags = 0
  /\ call.budget = NoFail
  /\ SoundBlocks(hive, call.node)
  /\ FirstBadLeaf(hive, call.node) = 2
  /\ Declared(hive, call.node) = 2
  /\ IS_VALID_BLOCK(hive, Leaves(hive, call.node)[2])
  /\ ret = 0 - 1
  /\ errno = StructuralFault
  /\ trace.appended.children = 1

-----------------------------------------------------------------------------
(* C10: the handles root and node_parent return *)

HandleReturned == pc = "done" /\ call.op \in {"root", "node_parent"} /\ ret # 0

=============================================================================
